---- MODULE Spec2Model ----
(***************************************************************************)
(* Server-side spaceship interpolator (SpaceshipInterpolator and           *)
(* getInterpolator): the movement / fuel simulation loop, its persisted    *)
(* record in the Redis hash sputnik:state, the command listener on         *)
(* sputnik:commands and the events published on sputnik:events.            *)
(*                                                                         *)
(* Every `await` on the Redis client is a suspension point.  The commands  *)
(* a client issues on one connection are served in the order they were     *)
(* issued, so the suspended calls form a FIFO `queue`: a step takes the    *)
(* head of the queue, applies the command (or lets it fail), and runs the  *)
(* caller's synchronous code up to its next `await`, which is issued at    *)
(* the tail.  Interval timers, time-outs, API calls and command            *)
(* deliveries happen between those steps.                                  *)
(*                                                                         *)
(* Positions are taken on one axis (y = z = 0), so a Vector3 is an         *)
(* integer, a direction is -1, 0 or 1 and the distance is |b - a|.         *)
(***************************************************************************)
EXTENDS Integers, Sequences, FiniteSets, TLC

\* ---------------------------------------------------------------- constants
\* units per second (configured through NEXT_PUBLIC_SPACESHIP_SPEED)
MOVEMENT_SPEED == 80
\* units
ARRIVAL_THRESHOLD == 10
\* milliseconds
UPDATE_INTERVAL == 50
\* fuel units per distance unit (configured through FUEL_CONSUMPTION_RATE)
FUEL_CONSUMPTION_RATE == 10
\* what getCurrentFuel answers when the field is missing or the read fails
DefaultFuel == 100
\* the fuel initialize() writes into an empty store
InitialFuel == 100

\* a configuration in which one tick travels farther than the arrival
\* threshold (NEXT_PUBLIC_SPACESHIP_SPEED and FUEL_CONSUMPTION_RATE set)
FAST_MOVEMENT_SPEED == 320
LOW_FUEL_CONSUMPTION_RATE == 5

\* the configuration the module read from the environment when it was loaded
VARIABLE config

\* the clock Date.now() reads
VARIABLE now

Configured == [speed |-> MOVEMENT_SPEED, rate |-> FUEL_CONSUMPTION_RATE]
Configurations ==
    {Configured,
     [speed |-> FAST_MOVEMENT_SPEED, rate |-> LOW_FUEL_CONSUMPTION_RATE]}

\* ------------------------------------------------------------------- bounds
\* suspended Redis calls (ticks, stops, setDestination, initialize) at a time
MaxInFlight == 2
\* MoveTo / Stop commands from other producers plus setDestination calls
MaxCommands == 2
\* Redis operations that fail in one behaviour
MaxFailures == 1
\* the clock is observed at 0 .. MaxClock
MaxClock == 1

\* destinations a command or a call may name
Destinations == {0, 14}
\* fuel levels a record left by an earlier run may hold
PersistedFuels == {30}

\* ------------------------------------------------------------------ helpers
Null == << >>
Some(v) == << v >>
Val(o) == o[1]

Abs(x) == IF x < 0 THEN -x ELSE x
Min(a, b) == IF a < b THEN a ELSE b
Max(a, b) == IF a > b THEN a ELSE b

\* normalizeVector on one axis
normalizeVector(v) == IF v = 0 THEN 0 ELSE IF v > 0 THEN 1 ELSE -1

calculateDistance(a, b) == Abs(b - a)

\* moveDistance = MOVEMENT_SPEED * deltaTime, deltaTime = UPDATE_INTERVAL / 1000
moveDistance == (config.speed * UPDATE_INTERVAL) \div 1000

\* fuelConsumed = moveDistance * FUEL_CONSUMPTION_RATE
fuelConsumed == moveDistance * config.rate

\* possibleDistance = currentFuel / FUEL_CONSUMPTION_RATE
\* (every fuel level of the model is a multiple of the rate: exact)
possibleDistance(currentFuel) == currentFuel \div config.rate

\* the larger of the two instead of the smaller
movementThisFrameMax(distance) == Max(moveDistance, distance)

\* movementThisFrame = Math.min(moveDistance, distance)
movementThisFrame(distance) == Min(moveDistance, distance)

\* the deduction with its sign reversed
DeductedFuelAdded(currentFuel) == Max(0, currentFuel + fuelConsumed)

\* the value updatePosition hands to updateFuel when fuel is not depleted
DeductedFuel(currentFuel) == Max(0, currentFuel - fuelConsumed)

\* a no-fuel test that lets a tank at exactly zero through
OutOfFuelBelowZero(currentFuel) == currentFuel < 0

\* the test of the no-fuel branch
OutOfFuel(currentFuel) == currentFuel <= 0

\* the test of the depletion branch
WillDeplete(currentFuel) == currentFuel - fuelConsumed <= 0

\* the test of the arrival branch
HasArrived(distance) == distance <= ARRIVAL_THRESHOLD

\* ------------------------------------------------- the hash sputnik:state
\* A field is Null (missing) or Some(value).  The destination field keeps
\* its encoding: "json" (a serialized array), "empty" (the string ''),
\* "null" (the string 'null', JSON.stringify(null)) or "missing".
DestJson(d) == [enc |-> "json", val |-> d]
DestEmpty == [enc |-> "empty", val |-> 0]
DestNullText == [enc |-> "null", val |-> 0]
DestMissing == [enc |-> "missing", val |-> 0]

EmptyHash ==
    [position |-> Null, velocity |-> Null, destination |-> DestMissing,
     isMoving |-> Null, fuel |-> Null, timestamp |-> Null]

\* fuelStr ? parseFloat(fuelStr) : 100
ParseFuel(h) == IF h.fuel = Null THEN DefaultFuel ELSE Val(h.fuel)

\* getState(): the parsed record, or found = FALSE for an empty hash
getState(h) ==
    IF h = EmptyHash
    THEN [found |-> FALSE, position |-> 0, velocity |-> 0,
          destination |-> Null, fuel |-> DefaultFuel, isMoving |-> FALSE]
    ELSE [found |-> TRUE,
          position |-> IF h.position = Null THEN 0 ELSE Val(h.position),
          velocity |-> IF h.velocity = Null THEN 0 ELSE Val(h.velocity),
          destination |-> IF h.destination.enc = "json"
                          THEN Some(h.destination.val) ELSE Null,
          fuel |-> ParseFuel(h),
          isMoving |-> h.isMoving = Some(TRUE)]

\* the answer getState() gives when hGetAll fails
NoState == getState(EmptyHash)

\* ------------------------------------------------------------------- state
VARIABLES
    interpolatorInstance, \* the module's singleton exists (is not null)
    initialization,       \* of the instance: "none", "running", "subscribing", "done", "failed"
    interp,               \* the SpaceshipInterpolator object and its interval timers
    timeouts,             \* pending setTimeout call-backs of notifyArrival
    hash,                 \* the Redis hash sputnik:state
    queue,                \* suspended calls, in the order their Redis command was issued
    subscribed,           \* the listener on sputnik:commands is installed
    commands,             \* move_to messages republished by setDestination, not yet delivered
    constructed,          \* SpaceshipInterpolator objects constructed so far
    issued,               \* commands of other producers and setDestination calls so far
    failures,             \* Redis operations that have failed so far
    stopped,              \* a Stop was handled and no move_to or setDestination since
    transits,             \* was the current transit snapped to; snapped transits minus arrival events
    step                  \* what the last step did (its outcome, the event it published)

vars ==
    << interpolatorInstance, initialization, interp, timeouts, hash, queue,
       subscribed, commands, constructed, issued, failures, stopped,
       transits, step, config, now >>

\* ----------------------------------------------- the object's own methods
\* fields of `this`; `intervals` counts the interval timers registered in
\* the runtime, intervalId tells whether the object holds a timer id
NewInterpolator ==
    [isRunning |-> FALSE, intervalId |-> FALSE, intervals |-> 0,
     currentPosition |-> 0, destination |-> Null,
     isNotifyingArrival |-> FALSE]

\* a start that registers a timer whether or not the loop is running
startInterpolationUnguarded(m) ==
    [m EXCEPT !.isRunning = TRUE,
              !.isNotifyingArrival = FALSE,
              !.intervalId = TRUE,
              !.intervals = m.intervals + 1]

\* startInterpolation()
startInterpolation(m) ==
    IF m.isRunning
    THEN m
    ELSE [m EXCEPT !.isRunning = TRUE,
                   !.isNotifyingArrival = FALSE,
                   !.intervalId = TRUE,
                   !.intervals = (IF m.intervalId THEN m.intervals - 1
                                                  ELSE m.intervals) + 1]

\* stopInterpolation() up to its first await (only called when running)
stopTimer(m) ==
    [m EXCEPT !.isRunning = FALSE,
              !.intervalId = FALSE,
              !.intervals = IF m.intervalId THEN m.intervals - 1 ELSE m.intervals]

\* calculateVelocity()
calculateVelocity(m) ==
    IF m.destination = Null
    THEN 0
    ELSE normalizeVector(Val(m.destination) - m.currentPosition) * config.speed

\* the fields updateRedisPosition() writes: position, velocity and timestamp
\* were taken before the fuel read, destination and isMoving when the fuel read returned
\* and the hSet was issued
PositionUpdate(h, t) ==
    [h EXCEPT !.position = Some(t.position),
              !.velocity = Some(t.velocity),
              !.destination = IF t.urpDestination = Null THEN DestEmpty
                              ELSE DestJson(Val(t.urpDestination)),
              !.isMoving = Some(t.urpIsMoving),
              !.fuel = Some(t.fuel),
              !.timestamp = t.timestamp]

\* ---------------------------------------------------------- suspended calls
NoTask ==
    [fn |-> "none", at |-> "", pc |-> "",
     direction |-> 0, distance |-> 0, currentFuel |-> 0, newFuel |-> 0,
     arrivalPosition |-> 0,
     position |-> 0, velocity |-> 0, fuel |-> 0,
     urpDestination |-> Null, urpIsMoving |-> FALSE,
     timestamp |-> Null,
     destination |-> 0,
     \* not in the code: for a setDestination call, whether one of its Redis
     \* operations has failed
     failed |-> FALSE]

\* a quiet step
Quiet(op) ==
    [op |-> op, outcome |-> "", event |-> "none", fuel |-> 0]

\* the sites stopInterpolation() is called from
StopSites == {"stopCommand", "noFuel", "depleted", "arrival"}

\* entering updateRedisPosition(): position and velocity are taken, then
\* getCurrentFuel() is awaited
EnterUpdateRedisPosition(t, m, site) ==
    [t EXCEPT !.at = site, !.pc = "urpGetFuel",
              !.position = m.currentPosition,
              !.velocity = calculateVelocity(m),
              !.timestamp = Some(now)]

OkSet == IF failures < MaxFailures THEN {TRUE, FALSE} ELSE {TRUE}
Failed(ok) == IF ok THEN failures ELSE failures + 1

Head1 == queue[1]
HeadIs(fn, pc) == queue # << >> /\ Head1.fn = fn /\ Head1.pc = pc
\* the head call goes on (with its next command at the tail) or ends
Continue(t) == queue' = Append(Tail(queue), t)
Finish == queue' = Tail(queue)

InFlight(fn) == Len(SelectSeq(queue, LAMBDA t : t.fn = fn))

StepRec(op, outcome, event, fuel) ==
    [op |-> op, outcome |-> outcome, event |-> event, fuel |-> fuel]
TickEnd(outcome) == StepRec("tickEnd", outcome, "none", 0)

\* a destination is set: a transit begins
BeginTransit(ts) == [ts EXCEPT !.snapped = FALSE]
\* a tick snaps the position to the destination: the transit ends by arrival
Snap(ts) == IF ts.snapped THEN ts ELSE [snapped |-> TRUE, owed |-> ts.owed + 1]

\* ------------------------------------------------------------------- Init
\* the store is empty, or holds the record an earlier run left behind:
\* idle at the origin, or stopped in the middle of a transit
InitialHashes ==
    {EmptyHash}
    \cup {[position |-> Some(0), velocity |-> Some(0), destination |-> DestEmpty,
           isMoving |-> Some(FALSE), fuel |-> Some(f),
           timestamp |-> Some(0)] : f \in PersistedFuels}
    \cup {[position |-> Some(0), velocity |-> Some(MOVEMENT_SPEED),
           destination |-> DestJson(14), isMoving |-> Some(TRUE),
           fuel |-> Some(f), timestamp |-> Some(0)] : f \in PersistedFuels}

\* the record a run leaves behind when its fuel has run out: stopped by the
\* depletion branch, or interrupted between updateFuel(0) and the stop
StrandedHashes ==
    {[position |-> Some(3), velocity |-> Some(0), destination |-> DestEmpty,
      isMoving |-> Some(FALSE), fuel |-> Some(0), timestamp |-> Some(0)],
     [position |-> Some(0), velocity |-> Some(MOVEMENT_SPEED),
      destination |-> DestJson(14), isMoving |-> Some(TRUE), fuel |-> Some(0),
      timestamp |-> Some(0)]}

\* the record of a vehicle that was stopped one unit short of [14,0,0] with
\* less fuel than one tick consumes
NearHashes ==
    {[position |-> Some(13), velocity |-> Some(0), destination |-> DestEmpty,
      isMoving |-> Some(FALSE), fuel |-> Some(f), timestamp |-> Some(0)] :
         f \in PersistedFuels}

InitFrom(c, hashes) ==
    /\ config = c
    /\ now = 0
    /\ interpolatorInstance = FALSE
    /\ initialization = "none"
    /\ interp = NewInterpolator
    /\ timeouts = 0
    /\ hash \in hashes
    /\ queue = << >>
    /\ subscribed = FALSE
    /\ commands = << >>
    /\ constructed = 0
    /\ issued = 0
    /\ failures = 0
    /\ stopped = FALSE
    /\ transits = [snapped |-> FALSE, owed |-> 0]
    /\ step = Quiet("init")

InitWith(c) == InitFrom(c, InitialHashes)

\* the module is loaded with the configuration of the deployment
Init == InitWith(Configured)

\* --------------------------------------------------------- getInterpolator
\* getInterpolator(): the first call constructs the instance and awaits
\* initialize(); a call that finds the instance returns it at once.  (A call
\* made after initialize() has completed changes nothing: it is not a step.)
GetInterpolator ==
    /\ initialization \in {"none", "running", "subscribing", "failed"}
    /\ IF ~interpolatorInstance
       THEN /\ interpolatorInstance' = TRUE
            /\ constructed' = constructed + 1
            /\ initialization' = "running"
            /\ queue' = Append(queue, [NoTask EXCEPT !.fn = "initialize",
                                                     !.at = "initialize",
                                                     !.pc = "connect"])
            /\ step' = Quiet("getInterpolator")
       ELSE /\ step' = StepRec("getInterpolatorReturn", initialization, "none", 0)
            /\ UNCHANGED << interpolatorInstance, constructed, initialization, queue >>
    /\ UNCHANGED << interp, timeouts, hash, subscribed, commands, issued,
                    failures, transits >>
    /\ UNCHANGED << stopped, config, now >>

\* initialize(): await this.redis.connect()
InitConnect ==
    /\ HeadIs("initialize", "connect")
    /\ \E ok \in OkSet :
        /\ failures' = Failed(ok)
        /\ IF ok
           THEN /\ Continue([Head1 EXCEPT !.pc = "getState"])
                /\ UNCHANGED initialization
                /\ step' = Quiet("initialize")
           ELSE /\ Finish
                /\ initialization' = "failed"
                /\ step' = StepRec("initializeEnd", "threw", "none", 0)
    /\ UNCHANGED << interpolatorInstance, interp, timeouts, hash, subscribed,
                    commands, constructed, issued, transits >>
    /\ UNCHANGED << stopped, config, now >>

\* initialize(): state = await this.getState(), then hydrate or write defaults
InitGetState ==
    /\ HeadIs("initialize", "getState")
    /\ \E ok \in OkSet :
        LET state == IF ok THEN getState(hash) ELSE NoState
            m1 == [interp EXCEPT !.currentPosition = state.position]
            m2 == IF state.destination = Null
                  THEN m1
                  ELSE startInterpolation(
                           [m1 EXCEPT !.destination = state.destination])
        IN  /\ failures' = Failed(ok)
            /\ IF state.found
               THEN /\ interp' = m2
                    /\ transits' = IF state.destination = Null THEN transits
                                   ELSE BeginTransit(transits)
                    /\ Continue(EnterUpdateRedisPosition(Head1, m2, "initialize"))
               ELSE /\ Continue([Head1 EXCEPT !.pc = "updateState",
                                               !.timestamp = Some(now)])
                    /\ UNCHANGED << interp, transits >>
    /\ step' = Quiet("initialize")
    /\ UNCHANGED << interpolatorInstance, initialization, timeouts, hash,
                    subscribed, commands, constructed, issued >>
    /\ UNCHANGED << stopped, config, now >>

\* initialize(): await this.updateState({position, velocity, fuel: 100})
InitUpdateState ==
    /\ HeadIs("initialize", "updateState")
    /\ \E ok \in OkSet :
        /\ failures' = Failed(ok)
        /\ hash' = IF ok
                   THEN [hash EXCEPT !.position = Some(0), !.velocity = Some(0),
                                     !.fuel = Some(InitialFuel),
                                     !.timestamp = Head1.timestamp]
                   ELSE hash
    /\ Continue(EnterUpdateRedisPosition(Head1, interp, "initialize"))
    /\ step' = Quiet("initialize")
    /\ UNCHANGED << interpolatorInstance, initialization, interp, timeouts,
                    subscribed, commands, constructed, issued, transits >>
    /\ UNCHANGED << stopped, config, now >>

\* setupRedisListener(): the subscriber connects and subscribes on its own
\* connection; a failure is caught; initialize() and getInterpolator() return
InitSubscribe ==
    /\ initialization = "subscribing"
    /\ \E ok \in OkSet :
        /\ failures' = Failed(ok)
        /\ subscribed' = ok
    /\ initialization' = "done"
    /\ step' = StepRec("getInterpolatorReturn", "done", "none", 0)
    /\ UNCHANGED << interpolatorInstance, interp, timeouts, hash, queue,
                    commands, constructed, issued, transits >>
    /\ UNCHANGED << stopped, config, now >>

\* ------------------------------------------------------ updateRedisPosition
\* updateRedisPosition(): currentFuel = await this.getCurrentFuel()
\* (a failed read is caught in getCurrentFuel and answered with the default)
UpdateRedisPositionGetFuel ==
    /\ queue # << >>
    /\ Head1.pc = "urpGetFuel"
    /\ \E ok \in OkSet :
        /\ failures' = Failed(ok)
        /\ Continue([Head1 EXCEPT !.pc = "urpSet",
                                  !.fuel = IF ok THEN ParseFuel(hash) ELSE DefaultFuel,
                                  !.urpDestination = interp.destination,
                                  !.urpIsMoving = interp.isRunning])
    /\ step' = Quiet("updateRedisPosition")
    /\ UNCHANGED << interpolatorInstance, initialization, interp, timeouts, hash,
                    subscribed, commands, constructed, issued, transits >>
    /\ UNCHANGED << stopped, config, now >>

\* updateRedisPosition(): await this.redis.hSet('sputnik:state', {...}) (a
\* failure is caught), then back in the caller up to its next await
UpdateRedisPositionSet ==
    /\ queue # << >>
    /\ Head1.pc = "urpSet"
    /\ \E ok \in OkSet :
        LET t == [Head1 EXCEPT !.position = 0, !.velocity = 0, !.fuel = 0,
                               !.urpDestination = Null, !.urpIsMoving = FALSE,
                               !.timestamp = Null]
        IN  /\ failures' = Failed(ok)
            /\ hash' = IF ok THEN PositionUpdate(hash, Head1) ELSE hash
            /\ CASE t.at = "initialize" ->
                      /\ Finish
                      /\ initialization' = "subscribing"
                      /\ step' = Quiet("initialize")
                 [] t.at \in StopSites ->
                      /\ Continue([t EXCEPT !.pc = "isMoving"])
                      /\ step' = Quiet("stopInterpolation")
                      /\ UNCHANGED initialization
                 [] t.at = "depletedMove" ->
                      /\ Continue([t EXCEPT !.pc = "publishDepleted"])
                      /\ step' = Quiet("updatePosition")
                      /\ UNCHANGED initialization
                 [] t.at = "move" ->
                      /\ Finish
                      /\ step' = TickEnd("moved")
                      /\ UNCHANGED initialization
    /\ UNCHANGED << interpolatorInstance, interp, timeouts, subscribed, commands,
                    constructed, issued, transits >>
    /\ UNCHANGED << stopped, config, now >>

\* -------------------------------------------------------- stopInterpolation
\* stopInterpolation(): await this.redis.hSet('sputnik:state', 'isMoving',
\* 'false'); nothing catches a failure, so it rejects into the caller
StopSetIsMoving ==
    /\ queue # << >>
    /\ Head1.pc = "isMoving"
    /\ \E ok \in OkSet :
        LET t == Head1
            ended == IF t.fn = "stopInterpolation"
                     THEN StepRec("stopEnd", IF ok THEN "stopped" ELSE "threw",
                                  "none", 0)
                     ELSE TickEnd(IF ok THEN t.at
                                  ELSE IF t.at = "depleted" THEN "depletedThrew"
                                  ELSE "threw")
        IN  /\ failures' = Failed(ok)
            /\ hash' = IF ok THEN [hash EXCEPT !.isMoving = Some(FALSE)] ELSE hash
            /\ IF ok /\ t.at = "arrival"
               THEN \* back in updatePosition: this.destination = null, then
                    \* await this.redis.hSet('sputnik:state', 'destination', '')
                    /\ interp' = [interp EXCEPT !.destination = Null]
                    /\ Continue([t EXCEPT !.pc = "clearDestination"])
                    /\ step' = Quiet("updatePosition")
               ELSE /\ Finish
                    /\ step' = ended
                    /\ UNCHANGED interp
    /\ UNCHANGED << interpolatorInstance, initialization, timeouts, subscribed,
                    commands, constructed, issued, transits >>
    /\ UNCHANGED << stopped, config, now >>

\* ------------------------------------------------------------ updatePosition
\* the interval timer fires: updatePosition() up to await getCurrentFuel()
TimerFires ==
    /\ interp.intervals > 0
    /\ interp.destination # Null
    /\ interp.isRunning
    /\ Len(queue) < MaxInFlight
    /\ queue' = Append(queue,
           [NoTask EXCEPT
               !.fn = "updatePosition", !.at = "tick", !.pc = "getFuel",
               !.direction = normalizeVector(Val(interp.destination)
                                             - interp.currentPosition),
               !.distance = calculateDistance(interp.currentPosition,
                                              Val(interp.destination))])
    /\ step' = Quiet("timer")
    /\ UNCHANGED << interpolatorInstance, initialization, interp, timeouts, hash,
                    subscribed, commands, constructed, issued, failures,
                    transits >>
    /\ UNCHANGED << stopped, config, now >>

\* updatePosition(): currentFuel read, then the three fuel branches up to
\* their first await
TickGetFuel ==
    /\ HeadIs("updatePosition", "getFuel")
    /\ \E ok \in OkSet :
        LET currentFuel == IF ok THEN ParseFuel(hash) ELSE DefaultFuel
            t == [Head1 EXCEPT !.currentFuel = currentFuel]
            cleared == [interp EXCEPT !.destination = Null]
        IN  /\ failures' = Failed(ok)
            /\ IF OutOfFuel(currentFuel)
               THEN \* already out of fuel
                    IF interp.isRunning
                    THEN /\ interp' = stopTimer(cleared)
                         /\ Continue(EnterUpdateRedisPosition(t, stopTimer(cleared),
                                                              "noFuel"))
                         /\ step' = Quiet("updatePosition")
                    ELSE /\ interp' = cleared
                         /\ Finish
                         /\ step' = TickEnd("noFuel")
               ELSE /\ UNCHANGED interp
                    /\ step' = Quiet("updatePosition")
                    /\ IF WillDeplete(currentFuel)
                       THEN Continue([t EXCEPT !.at = "deplete", !.pc = "fuelSet",
                                               !.newFuel = 0])
                       ELSE Continue([t EXCEPT !.at = "normal", !.pc = "fuelSet",
                                               !.newFuel = DeductedFuel(currentFuel)])
    /\ UNCHANGED << interpolatorInstance, initialization, timeouts, hash,
                    subscribed, commands, constructed, issued, transits >>
    /\ UNCHANGED << stopped, config, now >>

\* updatePosition() after updateFuel() has returned: the partial move of the
\* depletion branch, or the arrival test with the snap or the move
AfterUpdateFuel(t) ==
    IF t.at = "deplete"
    THEN LET m == [interp EXCEPT !.currentPosition =
                      interp.currentPosition
                      + t.direction * possibleDistance(t.currentFuel)]
         IN  /\ interp' = m
             /\ Continue(EnterUpdateRedisPosition(t, m, "depletedMove"))
             /\ UNCHANGED transits
    ELSE IF HasArrived(t.distance)
    THEN IF interp.destination = Null
         THEN \* this.destination.x of null: the tick throws
              /\ Finish
              /\ UNCHANGED << interp, transits >>
         ELSE LET m == [interp EXCEPT !.currentPosition = Val(interp.destination)]
                  t1 == [t EXCEPT !.arrivalPosition = m.currentPosition]
              IN  /\ transits' = Snap(transits)
                  /\ IF m.isRunning
                     THEN /\ interp' = stopTimer(m)
                          /\ Continue(EnterUpdateRedisPosition(t1, stopTimer(m),
                                                               "arrival"))
                     ELSE /\ interp' = [m EXCEPT !.destination = Null]
                          /\ Continue([t1 EXCEPT !.at = "arrival",
                                                 !.pc = "clearDestination"])
    ELSE LET m == [interp EXCEPT !.currentPosition =
                      interp.currentPosition
                      + t.direction * movementThisFrame(t.distance)]
         IN  /\ interp' = m
             /\ Continue(EnterUpdateRedisPosition(t, m, "move"))
             /\ UNCHANGED transits

ThrowsTypeError(t) ==
    t.at = "normal" /\ HasArrived(t.distance) /\ interp.destination = Null

\* updateFuel(): await this.redis.hSet('sputnik:state', 'fuel', newFuel); a
\* failure is caught and skips the publish
UpdateFuelSet ==
    /\ HeadIs("updatePosition", "fuelSet")
    /\ \E ok \in OkSet :
        LET t == Head1
        IN  /\ failures' = Failed(ok)
            /\ IF ok
               THEN /\ hash' = [hash EXCEPT !.fuel = Some(t.newFuel)]
                    /\ Continue([t EXCEPT !.pc = "fuelPublish"])
                    /\ step' = Quiet("updateFuel")
                    /\ UNCHANGED << interp, transits >>
               ELSE /\ UNCHANGED hash
                    /\ AfterUpdateFuel(t)
                    /\ step' = IF ThrowsTypeError(t) THEN TickEnd("typeError")
                               ELSE Quiet("updatePosition")
    /\ UNCHANGED << interpolatorInstance, initialization, timeouts, subscribed,
                    commands, constructed, issued >>
    /\ UNCHANGED << stopped, config, now >>

\* updateFuel(): await this.redis.publish(fuel_update) (a failure is caught),
\* then back in updatePosition
UpdateFuelPublish ==
    /\ HeadIs("updatePosition", "fuelPublish")
    /\ \E ok \in OkSet :
        LET t == Head1
        IN  /\ failures' = Failed(ok)
            /\ AfterUpdateFuel(t)
            /\ step' = StepRec(IF ThrowsTypeError(t) THEN "tickEnd" ELSE "updatePosition",
                               IF ThrowsTypeError(t) THEN "typeError" ELSE "",
                               IF ok THEN "fuel_update" ELSE "none",
                               IF ok THEN t.newFuel ELSE 0)
    /\ UNCHANGED << interpolatorInstance, initialization, timeouts, hash,
                    subscribed, commands, constructed, issued >>
    /\ UNCHANGED << stopped, config, now >>

\* updatePosition(), depletion branch: await this.redis.publish(fuel_depleted)
\* (nothing catches a failure), then this.destination = null and
\* stopInterpolation()
PublishDepleted ==
    /\ HeadIs("updatePosition", "publishDepleted")
    /\ \E ok \in OkSet :
        LET t == Head1
            cleared == [interp EXCEPT !.destination = Null]
        IN  /\ failures' = Failed(ok)
            /\ IF ~ok
               THEN /\ Finish
                    /\ UNCHANGED interp
                    /\ step' = TickEnd("publishRejected")
               ELSE IF interp.isRunning
               THEN /\ interp' = stopTimer(cleared)
                    /\ Continue(EnterUpdateRedisPosition(t, stopTimer(cleared),
                                                         "depleted"))
                    /\ step' = StepRec("updatePosition", "", "fuel_depleted", 0)
               ELSE /\ interp' = cleared
                    /\ Finish
                    /\ step' = StepRec("tickEnd", "depleted", "fuel_depleted", 0)
    /\ UNCHANGED << interpolatorInstance, initialization, timeouts, hash,
                    subscribed, commands, constructed, issued, transits >>
    /\ UNCHANGED << stopped, config, now >>

\* updatePosition(), arrival branch: await this.redis.hSet('sputnik:state',
\* 'destination', '') (nothing catches a failure), then notifyArrival() up to
\* await getCurrentFuel()
ClearDestination ==
    /\ HeadIs("updatePosition", "clearDestination")
    /\ \E ok \in OkSet :
        LET t == Head1
        IN  /\ failures' = Failed(ok)
            /\ hash' = IF ok THEN [hash EXCEPT !.destination = DestEmpty] ELSE hash
            /\ IF ~ok
               THEN /\ Finish
                    /\ UNCHANGED interp
                    /\ step' = TickEnd("threw")
               ELSE IF interp.isNotifyingArrival
               THEN /\ Finish
                    /\ UNCHANGED interp
                    /\ step' = TickEnd("arrivalSkipped")
               ELSE /\ interp' = [interp EXCEPT !.isNotifyingArrival = TRUE]
                    /\ Continue([t EXCEPT !.pc = "arrivalGetFuel"])
                    /\ step' = Quiet("notifyArrival")
    /\ UNCHANGED << interpolatorInstance, initialization, timeouts, subscribed,
                    commands, constructed, issued, transits >>
    /\ UNCHANGED << stopped, config, now >>

\* notifyArrival(): currentFuel = await this.getCurrentFuel()
ArrivalGetFuel ==
    /\ HeadIs("updatePosition", "arrivalGetFuel")
    /\ \E ok \in OkSet :
        /\ failures' = Failed(ok)
        /\ Continue([Head1 EXCEPT !.pc = "arrivalPublish",
                                  !.fuel = IF ok THEN ParseFuel(hash) ELSE DefaultFuel])
    /\ step' = Quiet("notifyArrival")
    /\ UNCHANGED << interpolatorInstance, initialization, interp, timeouts, hash,
                    subscribed, commands, constructed, issued, transits >>
    /\ UNCHANGED << stopped, config, now >>

\* notifyArrival(): await this.redis.publish(arrival); a failure is caught,
\* skips updateState and goes to the finally block, which sets the time-out
ArrivalPublish ==
    /\ HeadIs("updatePosition", "arrivalPublish")
    /\ \E ok \in OkSet :
        LET t == Head1
        IN  /\ failures' = Failed(ok)
            /\ IF ok
               THEN /\ transits' = [transits EXCEPT !.owed = @ - 1]
                    /\ Continue([t EXCEPT !.pc = "arrivalUpdateState",
                                           !.timestamp = Some(now)])
                    /\ step' = StepRec("notifyArrival", "", "arrival", t.fuel)
                    /\ UNCHANGED timeouts
               ELSE /\ Finish
                    /\ timeouts' = timeouts + 1
                    /\ step' = TickEnd("arrivalNotPublished")
                    /\ UNCHANGED transits
    /\ UNCHANGED << interpolatorInstance, initialization, interp, hash,
                    subscribed, commands, constructed, issued >>
    /\ UNCHANGED << stopped, config, now >>

\* notifyArrival(): await this.updateState({position, velocity, destination:
\* null, isMoving: false, fuel}); a failure is caught; finally the time-out
ArrivalUpdateState ==
    /\ HeadIs("updatePosition", "arrivalUpdateState")
    /\ \E ok \in OkSet :
        LET t == Head1
        IN  /\ failures' = Failed(ok)
            /\ hash' = IF ok
                       THEN [hash EXCEPT !.position = Some(t.arrivalPosition),
                                         !.velocity = Some(0),
                                         !.destination = DestNullText,
                                         !.isMoving = Some(FALSE),
                                         !.fuel = Some(t.fuel),
                                         !.timestamp = t.timestamp]
                       ELSE hash
            /\ step' = TickEnd("arrived")
    /\ Finish
    /\ timeouts' = timeouts + 1
    /\ UNCHANGED << interpolatorInstance, initialization, interp, subscribed,
                    commands, constructed, issued, transits >>
    /\ UNCHANGED << stopped, config, now >>

\* the call-back of setTimeout(..., 1000) in notifyArrival()
CooldownFires ==
    /\ timeouts > 0
    /\ timeouts' = timeouts - 1
    /\ interp' = [interp EXCEPT !.isNotifyingArrival = FALSE]
    /\ step' = Quiet("timeout")
    /\ UNCHANGED << interpolatorInstance, initialization, hash, queue, subscribed,
                    commands, constructed, issued, failures, transits >>
    /\ UNCHANGED << stopped, config, now >>

\* ------------------------------------------------------- command listener
\* the subscribe call-back on a move_to command
HandleMoveTo(d) ==
    /\ interp' = startInterpolation([interp EXCEPT !.destination = Some(d)])
    /\ transits' = BeginTransit(transits)
    /\ step' = StepRec("moveTo", "", "none", 0)
    /\ UNCHANGED << interpolatorInstance, initialization, timeouts, hash, queue,
                    subscribed, constructed, failures >>
    /\ stopped' = FALSE
    /\ UNCHANGED << config, now >>

\* another producer publishes move_to and the listener receives it
MoveTo ==
    /\ subscribed
    /\ issued < MaxCommands
    /\ issued' = issued + 1
    /\ UNCHANGED commands
    /\ \E d \in Destinations : HandleMoveTo(d)

\* the listener receives the move_to that setDestination republished
DeliverRepublished ==
    /\ commands # << >>
    /\ commands' = Tail(commands)
    /\ UNCHANGED issued
    /\ HandleMoveTo(Head(commands))

\* the subscribe call-back on a stop command: this.destination = null and
\* stopInterpolation(), which is not awaited
Stop ==
    /\ subscribed
    /\ issued < MaxCommands
    /\ issued' = issued + 1
    /\ LET cleared == [interp EXCEPT !.destination = Null]
       IN  IF interp.isRunning
           THEN /\ Len(queue) < MaxInFlight
                /\ interp' = stopTimer(cleared)
                /\ queue' = Append(queue,
                       EnterUpdateRedisPosition(
                           [NoTask EXCEPT !.fn = "stopInterpolation"],
                           stopTimer(cleared), "stopCommand"))
           ELSE /\ interp' = cleared
                /\ UNCHANGED queue
    /\ step' = Quiet("stop")
    /\ UNCHANGED << interpolatorInstance, initialization, timeouts, hash,
                    subscribed, commands, constructed, failures, transits >>
    /\ stopped' = TRUE
    /\ UNCHANGED << config, now >>

\* ------------------------------------------------------------ setDestination
\* the callers use the instance once the first getInterpolator() has resolved
InstanceHeld == initialization = "done"

\* setDestination(d) up to await getCurrentFuel()
SetDestination ==
    /\ InstanceHeld
    /\ issued < MaxCommands
    /\ Len(queue) < MaxInFlight
    /\ issued' = issued + 1
    /\ \E d \in Destinations :
        /\ interp' = [interp EXCEPT !.destination = Some(d)]
        /\ queue' = Append(queue,
               [NoTask EXCEPT !.fn = "setDestination", !.at = "setDestination",
                              !.pc = "getFuel", !.destination = d])
    /\ transits' = BeginTransit(transits)
    /\ step' = Quiet("setDestination")
    /\ UNCHANGED << interpolatorInstance, initialization, timeouts, hash,
                    subscribed, commands, constructed, failures >>
    /\ stopped' = FALSE
    /\ UNCHANGED << config, now >>

\* setDestination(): currentFuel = await this.getCurrentFuel()
SetDestinationGetFuel ==
    /\ HeadIs("setDestination", "getFuel")
    /\ \E ok \in OkSet :
        /\ failures' = Failed(ok)
        /\ Continue([Head1 EXCEPT !.pc = "hSet",
                                  !.currentFuel = IF ok THEN ParseFuel(hash)
                                                  ELSE DefaultFuel,
                                  !.failed = Head1.failed \/ ~ok])
    /\ step' = Quiet("setDestination")
    /\ UNCHANGED << interpolatorInstance, initialization, interp, timeouts, hash,
                    subscribed, commands, constructed, issued, transits >>
    /\ UNCHANGED << stopped, config, now >>

\* setDestination(): await this.redis.hSet({destination, isMoving: 'true',
\* fuel}), then startInterpolation(); a failure returns false
SetDestinationSet ==
    /\ HeadIs("setDestination", "hSet")
    /\ \E ok \in OkSet :
        LET t == [Head1 EXCEPT !.failed = Head1.failed \/ ~ok]
        IN  /\ failures' = Failed(ok)
            /\ IF ok
               THEN /\ hash' = [hash EXCEPT !.destination = DestJson(t.destination),
                                            !.isMoving = Some(TRUE),
                                            !.fuel = Some(t.currentFuel)]
                    /\ interp' = startInterpolation(interp)
                    /\ Continue([t EXCEPT !.pc = "publish"])
                    /\ step' = Quiet("setDestination")
               ELSE /\ Finish
                    /\ UNCHANGED << hash, interp >>
                    /\ step' = StepRec("setDestinationReturn", "false", "none", 0)
    /\ UNCHANGED << interpolatorInstance, initialization, timeouts, subscribed,
                    commands, constructed, issued, transits >>
    /\ UNCHANGED << stopped, config, now >>

\* setDestination(): await this.redis.publish('sputnik:commands', move_to),
\* then return true; a failure returns false
SetDestinationPublish ==
    /\ HeadIs("setDestination", "publish")
    /\ \E ok \in OkSet :
        LET t == [Head1 EXCEPT !.failed = Head1.failed \/ ~ok]
        IN  /\ failures' = Failed(ok)
            /\ commands' = IF ok /\ subscribed
                           THEN Append(commands, t.destination) ELSE commands
            /\ step' = StepRec("setDestinationReturn",
                               IF ok THEN "true" ELSE "false", "none", 0)
    /\ Finish
    /\ UNCHANGED << interpolatorInstance, initialization, interp, timeouts, hash,
                    subscribed, constructed, issued, transits >>
    /\ UNCHANGED << stopped, config, now >>

\* ------------------------------------------------------------ specification
Next ==
    \/ GetInterpolator
    \/ InitConnect
    \/ InitGetState
    \/ InitUpdateState
    \/ InitSubscribe
    \/ UpdateRedisPositionGetFuel
    \/ UpdateRedisPositionSet
    \/ StopSetIsMoving
    \/ TimerFires
    \/ TickGetFuel
    \/ UpdateFuelSet
    \/ UpdateFuelPublish
    \/ PublishDepleted
    \/ ClearDestination
    \/ ArrivalGetFuel
    \/ ArrivalPublish
    \/ ArrivalUpdateState
    \/ CooldownFires
    \/ MoveTo
    \/ DeliverRepublished
    \/ Stop
    \/ SetDestination
    \/ SetDestinationGetFuel
    \/ SetDestinationSet
    \/ SetDestinationPublish

Spec == Init /\ [][Next]_vars

\* the steps that Redis answering the command at the head of the queue
\* brings about
ServeHead ==
    \/ InitConnect
    \/ InitGetState
    \/ InitUpdateState
    \/ UpdateRedisPositionGetFuel
    \/ UpdateRedisPositionSet
    \/ StopSetIsMoving
    \/ TickGetFuel
    \/ UpdateFuelSet
    \/ UpdateFuelPublish
    \/ PublishDepleted
    \/ ClearDestination
    \/ ArrivalGetFuel
    \/ ArrivalPublish
    \/ ArrivalUpdateState
    \/ SetDestinationGetFuel
    \/ SetDestinationSet
    \/ SetDestinationPublish

\* a working store: no Redis operation fails
WorkingStore == failures' = 0

LiveNext == Next /\ WorkingStore

\* the program under either configuration, on a working store
ConfiguredSpec == (\E c \in Configurations : InitWith(c)) /\ [][LiveNext]_vars

\* the program on a working store that answers every command, with the
\* interval timer, the time-outs and the message deliveries of the event
\* loop all taking place
\* the component is started on the record of a vehicle that idles close to
\* a destination with little fuel, and the store works
NearSpec == InitFrom(Configured, NearHashes) /\ [][LiveNext]_vars

\* time passes
AdvanceClock ==
    /\ now < MaxClock
    /\ now' = now + 1
    /\ UNCHANGED << interpolatorInstance, initialization, interp, timeouts, hash,
                    queue, subscribed, commands, constructed, issued, failures,
                    stopped, transits, step, config >>

\* the component on a working store, with the clock running
TimedNext == LiveNext \/ AdvanceClock
TimedSpec == Init /\ [][TimedNext]_vars

\* the component is started on the record of a vehicle that has run out of
\* fuel, and the store works
StrandedSpec == InitFrom(Configured, StrandedHashes) /\ [][LiveNext]_vars

LiveSpec ==
    /\ Init
    /\ [][LiveNext]_vars
    /\ WF_vars(ServeHead /\ WorkingStore)
    /\ WF_vars(InitSubscribe /\ WorkingStore)
    /\ WF_vars(TimerFires)
    /\ WF_vars(CooldownFires)
    /\ WF_vars(DeliverRepublished)

\* ------------------------------------------------------------------- claims
Quiescent == queue = << >>

\* C1: once initialize() has completed, the persisted fuel, and the fuel
\* carried by every fuel_update or arrival event, is >= 0 and <= 100.
C1_FuelInRange ==
    initialization = "done" =>
        /\ hash.fuel # Null => Val(hash.fuel) \in 0..100
        /\ ParseFuel(hash) \in 0..100
        /\ step.event \in {"fuel_update", "arrival"} => step.fuel \in 0..100

\* a tick has just deducted fuel and published the new level
C1_Witness ==
    /\ initialization = "done"
    /\ step.event = "fuel_update"
    /\ hash.fuel = Some(step.fuel)
    /\ step.fuel < InitialFuel

\* C2 (with a working store): the transits that ended by arrival and the
\* arrival events match: never more events than arrived transits, and none
\* owed once no tick is in flight.
C2_OneArrivalPerTransit ==
    failures = 0 =>
        /\ transits.owed >= 0
        /\ InFlight("updatePosition") = 0 => transits.owed = 0

\* C3: a tick that takes the depletion branch ends with the fuel_depleted
\* event published, the persisted fuel 0, the destination cleared and the
\* loop idle (timer inactive, isMoving false).
C3_DepletionEndsIdle ==
    (step.op = "tickEnd"
       /\ step.outcome \in {"depleted", "depletedThrew", "publishRejected"}) =>
        /\ step.outcome = "depleted"
        /\ hash.fuel = Some(0)
        /\ interp.destination = Null
        /\ ~interp.isRunning
        /\ interp.intervals = 0
        /\ hash.isMoving = Some(FALSE)

\* C4 (with a working store): after a Stop has been handled, and until a
\* move_to or setDestination, the destination stays absent and the position
\* does not change; the persisted record ends with isMoving false.
C4_StopHalts ==
    [][(stopped /\ stopped' /\ failures' = 0) =>
          /\ interp'.destination = Null
          /\ interp'.currentPosition = interp.currentPosition
          /\ Quiescent' => hash'.isMoving # Some(TRUE)]_vars

\* C5 (with a working store, and the call the only command issued): when
\* setDestination(d) returns true, getState() called at once shows
\* destination d and isMoving true.
C5_RoundTrip ==
    [][(step'.op = "setDestinationReturn" /\ step'.outcome = "true"
          /\ failures' = 0 /\ issued' = 1) =>
          /\ getState(hash').destination = Some(Head1.destination)
          /\ getState(hash').isMoving]_vars

\* C6: at most one execution of updatePosition is in progress.
C6_TicksSequential == InFlight("updatePosition") <= 1

\* C7: setDestination returns false whenever one of its store reads, store
\* writes or publishes has failed.
C7_FalseOnFailure ==
    [][(step'.op = "setDestinationReturn"
          /\ (Head1.failed \/ failures' # failures)) =>
          step'.outcome = "false"]_vars

\* C8: a failed publish does not abort the tick: after a failed
\* fuel_depleted publish the destination is cleared and the loop stopped, as
\* after a successful one.
C8_PublishFailureAbsorbed ==
    (step.op = "tickEnd" /\ step.outcome = "publishRejected") =>
        /\ interp.destination = Null
        /\ ~interp.isRunning

\* C9: one instance is constructed, and a caller receives it only after
\* initialize() has completed.
C9_SingleInitializedInstance ==
    /\ constructed <= 1
    /\ step.op = "getInterpolatorReturn" => step.outcome = "done"

\* C10 (with a working store): no step changes the persisted fuel to a
\* larger value.
C10_FuelNonIncreasing ==
    [][(failures' = 0 /\ hash.fuel # Null /\ hash'.fuel # Null) =>
          Val(hash'.fuel) <= Val(hash.fuel)]_vars

\* C11: a store operation that fails during a tick makes the tick a no-op:
\* the step in which the failure comes back to the tick leaves the position,
\* the destination, the running loop and the persisted fuel as they were.
C11_FailedTickIsNoOp ==
    [][(queue # << >> /\ Head1.fn = "updatePosition" /\ failures' # failures) =>
          /\ interp'.currentPosition = interp.currentPosition
          /\ interp'.destination = interp.destination
          /\ interp'.isRunning = interp.isRunning
          /\ hash'.fuel = hash.fuel]_vars

\* C12 (working store, fair timer): once a destination is set and the loop
\* runs, the system reaches Idle: destination absent and no timer active.
C12_TransitEnds ==
    (interp.destination # Null /\ interp.isRunning)
        ~> (interp.destination = Null /\ ~interp.isRunning /\ interp.intervals = 0)

\* a tick in the move branch changes the position in this step
MoveStep ==
    /\ queue # << >> /\ Head1.fn = "updatePosition" /\ Head1.at = "normal"
    /\ queue' # << >> /\ queue'[Len(queue')].at = "move"
    /\ queue' = Append(Tail(queue), queue'[Len(queue')])

\* the destination and the position are those the tick at the head computed
\* its direction and distance from
HeadViewCurrent ==
    /\ interp.destination # Null
    /\ calculateDistance(interp.currentPosition, Val(interp.destination))
           = Head1.distance
    /\ normalizeVector(Val(interp.destination) - interp.currentPosition)
           = Head1.direction

\* C13: a tick with no arrival and no depletion displaces the position by
\* (tick period) x (speed) along its direction, and with the destination
\* unchanged the remaining distance shrinks by exactly that amount.
C13_DisplacementPerTick ==
    [][MoveStep =>
          /\ interp'.currentPosition
                 = interp.currentPosition + Head1.direction * moveDistance
          /\ HeadViewCurrent =>
                 calculateDistance(interp'.currentPosition, Val(interp.destination))
                    = Head1.distance - moveDistance]_vars

\* C13, amended: the same, for a configuration in which one tick travels no
\* farther than the arrival threshold.
C13_DisplacementWithinThreshold ==
    [][(MoveStep /\ moveDistance <= ARRIVAL_THRESHOLD) =>
          /\ interp'.currentPosition
                 = interp.currentPosition + Head1.direction * moveDistance
          /\ HeadViewCurrent =>
                 calculateDistance(interp'.currentPosition, Val(interp.destination))
                    = Head1.distance - moveDistance]_vars

\* a tick has just moved the ship in the move branch, under such a
\* configuration
C13_Witness ==
    /\ moveDistance <= ARRIVAL_THRESHOLD
    /\ \E i \in 1..Len(queue) :
           /\ queue[i].at = "move" /\ queue[i].pc = "urpGetFuel"
           /\ queue[i].position = interp.currentPosition
           /\ interp.currentPosition # 0

\* C14: whenever no tick, command handler or setDestination call is in
\* flight, the in-memory destination is present if and only if the tick
\* timer is active (isRunning).  Checked for the runs in which no store
\* operation has failed, in the states where no published command awaits
\* delivery either.
C14_DestinationIffRunning ==
    (Quiescent /\ commands = << >> /\ failures = 0) =>
        (interp.destination # Null <=> interp.isRunning)

\* C15: whenever all pending store writes have completed (no tick, stop,
\* command handler or setDestination call in flight), the persisted isMoving
\* is true iff the tick timer is active, and the persisted destination is
\* non-empty iff the in-memory destination is present.  Checked once
\* initialize() has completed, for the runs in which no store operation has
\* failed; a persisted destination counts as non-empty when it holds a
\* serialized position.
C15_PersistedMatchesMemory ==
    (Quiescent /\ commands = << >> /\ failures = 0 /\ initialization = "done") =>
        /\ hash.isMoving = Some(TRUE) <=> interp.isRunning
        /\ hash.destination.enc = "json" <=> interp.destination # Null


\* C16: if the persisted fuel is <= 0 and the store is working, no sequence
\* of MoveTo commands, setDestination calls and ticks changes the position
\* (it only takes the persisted value when initialize() loads it), no
\* fuel_update, fuel_depleted or arrival event is published, and a tick,
\* once it has read the fuel, clears the destination and stops the loop.
C16_StrandedStays ==
    [][/\ interp'.currentPosition # interp.currentPosition
              => HeadIs("initialize", "getState")
       /\ step'.event = "none"
       /\ (HeadIs("updatePosition", "getFuel")
              /\ step'.op \in {"updatePosition", "tickEnd"}) =>
             /\ interp'.destination = Null
             /\ ~interp'.isRunning
             /\ interp'.intervals = 0]_vars

\* a tick has taken the no-fuel branch of a stranded vehicle that a command
\* had given a destination
C16_Witness ==
    /\ hash.fuel # Null /\ Val(hash.fuel) <= 0
    /\ issued > 0
    /\ \E i \in 1..Len(queue) : queue[i].fn = "updatePosition" /\ queue[i].at = "noFuel"
    /\ interp.destination = Null /\ ~interp.isRunning

\* a tick takes the arrival branch: it snaps the position to this.destination
SnapStep ==
    /\ queue # << >> /\ Head1.fn = "updatePosition" /\ Head1.at = "normal"
    /\ queue' # << >> /\ queue'[Len(queue')].at = "arrival"
    /\ queue' = Append(Tail(queue), queue'[Len(queue')])

\* the arrival tick returns from notifyArrival()
ArrivalTickEnds ==
    /\ queue # << >> /\ Head1.fn = "updatePosition" /\ Head1.at = "arrival"
    /\ queue' = Tail(queue)
    /\ step'.op = "tickEnd" /\ step'.outcome = "arrived"

\* C17: a tick snaps the position to a destination only if the distance to
\* that destination was <= the arrival threshold; and when the arrival tick
\* completes, the position equals that destination, the timer is inactive,
\* the destination is absent in memory and in the persisted record, and the
\* record has isMoving = false and velocity zero.  Checked for the runs in
\* which no store operation has failed.
C17_ArrivalTick ==
    [][/\ (SnapStep /\ failures' = 0) =>
              calculateDistance(interp.currentPosition, interp'.currentPosition)
                  <= ARRIVAL_THRESHOLD
       /\ (ArrivalTickEnds /\ failures' = 0) =>
              /\ interp'.currentPosition = Head1.arrivalPosition
              /\ ~interp'.isRunning /\ interp'.intervals = 0
              /\ interp'.destination = Null
              /\ hash'.destination.enc # "json"
              /\ hash'.isMoving = Some(FALSE)
              /\ hash'.velocity = Some(0)]_vars

\* the listener handles a move_to command
MoveToHandled ==
    step'.op = "moveTo" /\ (issued' # issued \/ commands' # commands)

\* the arrival tick, back from stopInterpolation(), clears this.destination
ArrivalClears ==
    /\ queue # << >> /\ Head1.fn = "updatePosition"
    /\ Head1.at = "arrival" /\ Head1.pc = "isMoving"
    /\ queue' # << >> /\ queue'[Len(queue')].pc = "clearDestination"
    /\ queue' = Append(Tail(queue), queue'[Len(queue')])

\* C18: when the listener handles MoveTo{d} the destination becomes d, the
\* loop runs on one timer (started only if it was not running), and the
\* subsequent ticks head for d: a tick that arrived somewhere else does not
\* take the destination d away.  Checked for the runs in which no store
\* operation has failed.
C18_MoveToTakesEffect ==
    [][/\ MoveToHandled =>
              /\ interp'.destination # Null
              /\ Val(interp'.destination) \in Destinations
              /\ interp'.isRunning /\ interp'.intervalId /\ interp'.intervals = 1
              /\ interp.isRunning =>
                    /\ interp'.intervals = interp.intervals
                    /\ interp'.isNotifyingArrival = interp.isNotifyingArrival
       /\ (ArrivalClears /\ failures' = 0 /\ interp.destination # Null) =>
              Val(interp.destination) = Head1.arrivalPosition]_vars

\* a store write changes a field of the record other than the timestamp
FieldChanged ==
    [hash' EXCEPT !.timestamp = Null] # [hash EXCEPT !.timestamp = Null]

\* C19: the persisted timestamp never decreases, and every write that
\* changes a field of the record also writes the timestamp its call took
\* from the clock (looked at when the clock has moved past the persisted
\* timestamp).
C19_TimestampMonotoneAndRefreshed ==
    [][/\ hash.timestamp # Null =>
              /\ hash'.timestamp # Null
              /\ Val(hash'.timestamp) >= Val(hash.timestamp)
       /\ (FieldChanged /\ hash.timestamp # Null /\ now > Val(hash.timestamp)) =>
              /\ queue # << >>
              /\ Head1.timestamp # Null
              /\ hash'.timestamp = Head1.timestamp]_vars

\* C20: at most one interval timer is registered at any time, intervalId is
\* non-null iff isRunning is true, and a timer is registered iff the loop is
\* running (so a start on a running loop adds none and a stop leaves none).
C20_OneTimer ==
    /\ interp.intervals <= 1
    /\ interp.intervalId <=> interp.isRunning
    /\ interp.isRunning <=> interp.intervals = 1

\* the loop has been started again while a stop is still suspended, by the
\* second command
C20_Witness ==
    /\ interp.isRunning /\ interp.intervals = 1
    /\ issued = 2
    /\ \E i \in 1..Len(queue) : queue[i].fn = "stopInterpolation"

\* C21: no single tick moves the vehicle farther than max(candidate travel
\* distance, arrival threshold): the step in which a tick changes the
\* position (snap, move or partial move) changes it by no more than that,
\* whatever commands were handled while the tick was suspended.  Checked
\* for the runs in which no store operation has failed.
C21_TickMoveBounded ==
    [][(queue # << >> /\ Head1.fn = "updatePosition" /\ failures' = 0) =>
          calculateDistance(interp.currentPosition, interp'.currentPosition)
              <= Max(moveDistance, ARRIVAL_THRESHOLD)]_vars

\* a tick takes the partial move of the depletion branch
DepletionMoveStep ==
    /\ queue # << >> /\ Head1.fn = "updatePosition" /\ Head1.at = "deplete"
    /\ queue' # << >> /\ queue'[Len(queue')].at = "depletedMove"
    /\ queue' = Append(Tail(queue), queue'[Len(queue')])

\* C22: a depletion tick never carries the vehicle past its destination:
\* the distance it travels is <= the distance to the destination the tick
\* measured when it started.
C22_DepletionWithinDistance ==
    [][DepletionMoveStep =>
          calculateDistance(interp.currentPosition, interp'.currentPosition)
              <= Head1.distance]_vars

\* the destination of the last setDestination() call that returned true,
\* while the move_to it republished is still to be delivered
LastAccepted == commands[Len(commands)]

\* a tick ends the transit to d: it has arrived at d, or the fuel is gone
TickEndsTransit(d) ==
    /\ queue # << >> /\ Head1.fn = "updatePosition"
    /\ commands' = commands
    /\ interp'.destination = Null
    /\ \/ Head1.pc \in {"getFuel", "publishDepleted"}
       \/ Head1.at = "arrival" /\ Head1.arrivalPosition = d
       \/ Head1.at = "normal" /\ interp'.currentPosition = d

\* C23: after setDestination(d) has returned true the in-memory destination
\* stays d until the vehicle arrives at d, the fuel is depleted, a Stop is
\* handled or a later MoveTo/setDestination is issued: no step of older
\* work (a tick of the previous transit, the delivery of an earlier
\* republished move_to) clears or replaces it.  Checked for the runs in
\* which no store operation has failed.
C23_AcceptedDestinationKept ==
    [][(/\ commands # << >>
        /\ interp.destination = Some(LastAccepted)
        /\ interp'.destination # interp.destination
        /\ issued' = issued
        /\ failures' = 0) => TickEndsTransit(LastAccepted)]_vars

\* a tick that neither arrives nor depletes completes its fuel deduction:
\* the hSet of updateFuel(currentFuel - fuelConsumed) is applied
DeductionWrite ==
    /\ HeadIs("updatePosition", "fuelSet") /\ Head1.at = "normal"
    /\ ~HasArrived(Head1.distance)
    /\ step'.op = "updateFuel"
    /\ queue' = Append(Tail(queue), queue'[Len(queue')])

\* the calls in flight are setDestination calls and ticks that neither
\* arrive nor deplete the fuel
OnlyMovingTicks ==
    \A i \in 1..Len(queue) :
        \/ queue[i].fn = "setDestination"
        \/ /\ queue[i].fn = "updatePosition"
           /\ queue[i].at \in {"tick", "normal", "move"}
           /\ ~HasArrived(queue[i].distance)

\* C24: fuel accounting loses no update: each completed deduction lowers
\* the persisted fuel by exactly candidate travel distance x consumption
\* rate, and the fuel written back by a position write or by setDestination
\* leaves the persisted fuel as it is, so that after k deductions the fuel
\* is the initial fuel minus k times that amount.  Checked once
\* initialize() has completed, while no other call and at most one tick is
\* in flight, for the runs in which no store operation has failed.
C24_NoLostFuelUpdate ==
    [][(initialization = "done" /\ failures' = 0 /\ hash.fuel # Null
           /\ OnlyMovingTicks /\ InFlight("updatePosition") <= 1) =>
          IF DeductionWrite
          THEN hash'.fuel = Some(Val(hash.fuel) - fuelConsumed)
          ELSE (queue # << >> /\ Head1.fn = "updatePosition"
                   /\ Head1.pc = "fuelSet")
               \/ hash'.fuel = hash.fuel]_vars

====
